---- MODULE Spec2Model ----
(***************************************************************************)
(* Distributed DDoS detector (MPI): one coordinator (rank 0) and N-1       *)
(* workers.  Two translation units define worker_start/coordinator_start:  *)
(* src/detector_enhanced.c ("enhanced") and src/detector.c ("basic"); a    *)
(* build links exactly one of them, so the variant is fixed per run.       *)
(*                                                                         *)
(* Numbers.  C doubles are modelled in fixed point: unless said otherwise  *)
(* a double-valued field holds the value times 1000 ("milli"), rounded     *)
(* down.  An input file is a sequence of lines; a data line carries a      *)
(* repetition count `reps` and stands for that many identical consecutive  *)
(* lines, so that shards of tens of thousands of flows stay representable. *)
(***************************************************************************)
EXTENDS Integers, Sequences, FiniteSets, TLC

(***************************************************************************)
(* Program constants (src/detector.h) and model bounds.                    *)
(***************************************************************************)
MAX_FLOWS == 100000
MAX_UNIQUE_IPS == 4096
CUSUM_WINDOW == 100
ML_FEATURES == 10
SizeofFlowRecord == 88
SizeofIpStat == 48

MaxRanks == 4
MaxTicks == 1
Epoch == 1700000000

Variants == {"enhanced", "basic"}

(***************************************************************************)
(* Arithmetic helpers standing for libm and C arithmetic.                  *)
(***************************************************************************)
Min(a, b) == IF a < b THEN a ELSE b
Max(a, b) == IF a > b THEN a ELSE b

RECURSIVE Pow2(_)
Pow2(k) == IF k = 0 THEN 1 ELSE 2 * Pow2(k - 1)

\* floor(log2 n) for n >= 1
RECURSIVE ILog2(_)
ILog2(n) == IF n < 2 THEN 0 ELSE 1 + ILog2(n \div 2)

\* mantissa of n in [1,2), scaled by 2^14
Mant(n) ==
    LET k == ILog2(n)
    IN  IF k <= 14 THEN n * Pow2(14 - k) ELSE n \div Pow2(k - 14)

\* `bits` fractional binary digits of log2 of the mantissa m (scaled by 2^14)
RECURSIVE FracBits(_, _)
FracBits(m, bits) ==
    IF bits = 0 THEN 0
    ELSE LET sq == (m * m) \div 16384
         IN  IF sq >= 32768
             THEN Pow2(bits - 1) + FracBits(sq \div 2, bits - 1)
             ELSE FracBits(sq, bits - 1)

\* log2(n) * 1024 for an integer n >= 1 (exact on powers of two)
Log2Q10(n) == ILog2(n) * 1024 + FracBits(Mant(n), 10)

\* floor(sqrt n) for 0 <= n < 2^31, by bisection on [lo, hi]
RECURSIVE SqrtBin(_, _, _)
SqrtBin(n, lo, hi) ==
    IF lo >= hi THEN lo
    ELSE LET mid == (lo + hi + 1) \div 2
         IN  IF mid * mid <= n THEN SqrtBin(n, mid, hi)
                               ELSE SqrtBin(n, lo, mid - 1)
sqrt(n) == IF n <= 0 THEN 0 ELSE SqrtBin(n, 0, 46340)

\* C integer conversion / division truncating toward zero
TruncDiv(a, b) == IF a >= 0 THEN a \div b ELSE -((-a) \div b)

(***************************************************************************)
(* Input files.  NoFile is an absent shard.  A present shard is a sequence *)
(* of lines.  kind: "header" (hdr = TRUE when the text contains            *)
(* "Source IP" or "Flow ID"), "comment" (first character '#'), "blank"     *)
(* (first character newline) or "data".  A data line is written in the     *)
(* shard grammar src,dst,bytes,ts,proto,sport,dport,packets (fmt "shard")  *)
(* or in the raw CIC grammar idx,flowid,src,sport,dst,dport,proto,ts,dur,  *)
(* fwdpkts (fmt "cic"); nf is the number of leading fields of its own      *)
(* grammar that are well formed.                                           *)
(***************************************************************************)
NoFile == <<[kind |-> "absent", hdr |-> FALSE, fmt |-> "none", nf |-> 0,
             src |-> "", bytes |-> 0, ts |-> 0, proto |-> 0, pkts |-> 0,
             reps |-> 0]>>

HeaderLine(h) == [kind |-> "header", hdr |-> h, fmt |-> "none", nf |-> 0,
                  src |-> "", bytes |-> 0, ts |-> 0, proto |-> 0, pkts |-> 0,
                  reps |-> 1]
CommentLine == [kind |-> "comment", hdr |-> FALSE, fmt |-> "none", nf |-> 0,
                src |-> "", bytes |-> 0, ts |-> 0, proto |-> 0, pkts |-> 0,
                reps |-> 1]
BlankLine == [kind |-> "blank", hdr |-> FALSE, fmt |-> "none", nf |-> 0,
              src |-> "", bytes |-> 0, ts |-> 0, proto |-> 0, pkts |-> 0,
              reps |-> 1]
DataLine(f, n, ip, b, t, pr, pk, r) ==
    [kind |-> "data", hdr |-> FALSE, fmt |-> f, nf |-> n, src |-> ip,
     bytes |-> b, ts |-> t, proto |-> pr, pkts |-> pk, reps |-> r]

FileExists(file) == file # NoFile

(***************************************************************************)
(* load_partition.  sscanf returns the number of conversions assigned.     *)
(* basic:    "%31[^,],%31[^,],%d,%d,%d,%d,%d,%d"   over a shard line gives *)
(*           nf; over a CIC line the third conversion stops inside the     *)
(*           dotted flow id, so fewer than 4 are assigned.                 *)
(* enhanced: "%*d,%*[^,],%31[^,],%d,%31[^,],%d,%d,%*[^,],%*d,%d" assigns   *)
(*           src, sport, dst, dport, proto, packets of a CIC line (its     *)
(*           fields 3..7 and 10); on a shard line the leading %*d stops at *)
(*           the first dot of the address and nothing is assigned.         *)
(***************************************************************************)
sscanf(v, line) ==
    IF line.kind = "data"
    THEN IF v = "basic"
         THEN IF line.fmt = "shard" THEN line.nf ELSE Min(line.nf, 3)
         ELSE IF line.fmt = "cic"
              THEN IF line.nf <= 2 THEN 0
                   ELSE IF line.nf <= 7 THEN line.nf - 2
                   ELSE IF line.nf <= 9 THEN 5 ELSE 6
              ELSE 0
    ELSE 0

\* The FlowRecord built from an accepted line; n records, timestamps
\* timestamp..ts_last (they differ only in the enhanced variant).
FlowOf(v, line, count, n, now) ==
    LET parsed == sscanf(v, line)
    IN  IF v = "basic"
        THEN [src_ip |-> line.src,
              bytes |-> IF parsed >= 3 THEN line.bytes ELSE 0,
              packets |-> IF parsed >= 8 /\ line.pkts > 0 THEN line.pkts ELSE 1,
              timestamp |-> IF parsed >= 4 THEN line.ts ELSE 0,
              ts_last |-> IF parsed >= 4 THEN line.ts ELSE 0,
              protocol |-> IF parsed >= 5 THEN line.proto ELSE 0,
              n |-> n]
        ELSE [src_ip |-> line.src,
              bytes |-> 512,
              packets |-> IF parsed >= 6 THEN line.pkts ELSE 1,
              timestamp |-> now + count,
              ts_last |-> now + count + n - 1,
              protocol |-> IF parsed >= 5 THEN line.proto ELSE 17,
              n |-> n]

\* Is the line skipped before parsing?  Returns the new header_skipped too.
SkipLine(v, line, header_skipped) ==
    IF v = "basic"
    THEN IF ~header_skipped THEN [skip |-> TRUE, hs |-> TRUE]
         ELSE [skip |-> line.kind \in {"comment", "blank"}, hs |-> TRUE]
    ELSE IF ~header_skipped \/ line.kind \in {"comment", "blank"}
         THEN [skip |-> TRUE, hs |-> header_skipped \/ line.hdr]
         ELSE [skip |-> FALSE, hs |-> header_skipped]

RECURSIVE LoadLines(_, _, _, _, _, _, _)
LoadLines(v, lines, i, records, count, header_skipped, now) ==
    IF i > Len(lines) \/ count >= MAX_FLOWS THEN records
    ELSE LET line == lines[i]
             sk == SkipLine(v, line, header_skipped)
             n == Min(line.reps, MAX_FLOWS - count)
         IN  IF sk.skip
             THEN LoadLines(v, lines, i + 1, records, count, sk.hs, now)
             ELSE IF sscanf(v, line) >= 4
                  THEN LoadLines(v, lines, i + 1,
                                 Append(records, FlowOf(v, line, count, n, now)),
                                 count + n, sk.hs, now)
                  ELSE LoadLines(v, lines, i + 1, records, count, sk.hs, now)

\* records read from the shard; `elapsed` is the number of seconds the wall
\* clock advanced while reading (it only shows in the enhanced timestamps).
load_partition(v, file, now, elapsed) ==
    IF ~FileExists(file) THEN <<>>
    ELSE LET recs == LoadLines(v, file, 1, <<>>, 0, FALSE, now)
         IN  IF v = "enhanced" /\ Len(recs) > 0
             THEN [recs EXCEPT ![Len(recs)].ts_last = @ + elapsed]
             ELSE recs

RECURSIVE FlowCount(_)
FlowCount(records) ==
    IF records = <<>> THEN 0 ELSE Head(records).n + FlowCount(Tail(records))

(***************************************************************************)
(* IP aggregation.  stats is the live prefix stats[0..stat_count-1] of the *)
(* IpStat table, as a sequence (C index i is position i + 1).              *)
(***************************************************************************)
\* index (0-based) of the first entry from position i on whose ip is equal
\* to ip, -1 when there is none
IndexOfIp(stats, ip, i) ==
    LET hits == {k \in i..Len(stats) : stats[k].ip = ip}
    IN  IF hits = {} THEN -1
        ELSE (CHOOSE k \in hits : \A j \in hits : k <= j) - 1

\* returns the index (or -1 when the table is full) and the table
find_or_add_ip(stats, ip) ==
    LET found == IndexOfIp(stats, ip, 1)
    IN  IF found >= 0 THEN [idx |-> found, stats |-> stats]
        ELSE IF Len(stats) >= MAX_UNIQUE_IPS THEN [idx |-> -1, stats |-> stats]
        ELSE [idx |-> Len(stats),
              stats |-> Append(stats, [ip |-> ip, packet_count |-> 0,
                                       byte_count |-> 0])]

\* packets one record adds to the counters: r->packets (enhanced), 1 (basic)
PacketsOf(v, r) == IF v = "enhanced" THEN r.packets ELSE 1

\* one iteration of the loop of build_ip_stats, on record (group) r
BuildStep(v, acc, r) ==
    LET fa == find_or_add_ip(acc.stats, r.src_ip)
    IN  [stats |-> IF fa.idx >= 0
                   THEN [fa.stats EXCEPT
                           ![fa.idx + 1].packet_count = @ + r.n * PacketsOf(v, r),
                           ![fa.idx + 1].byte_count = @ + r.n * r.bytes]
                   ELSE fa.stats,
         total_packets |-> acc.total_packets + r.n * PacketsOf(v, r),
         total_bytes |-> acc.total_bytes + r.n * r.bytes,
         min_ts |-> Min(acc.min_ts, r.timestamp),
         max_ts |-> Max(acc.max_ts, r.ts_last)]

RECURSIVE BuildLoop(_, _, _, _)
BuildLoop(v, records, i, acc) ==
    IF i > Len(records) THEN acc
    ELSE BuildLoop(v, records, i + 1, BuildStep(v, acc, records[i]))

build_ip_stats(v, records) ==
    IF FlowCount(records) <= 0
    THEN [stats |-> <<>>, total_packets |-> 0, total_bytes |-> 0,
          min_ts |-> 0, max_ts |-> 0]
    ELSE BuildLoop(v, records, 1,
                   [stats |-> <<>>, total_packets |-> 0, total_bytes |-> 0,
                    min_ts |-> records[1].timestamp,
                    max_ts |-> records[1].timestamp])

(***************************************************************************)
(* Feature extraction.                                                     *)
(***************************************************************************)
\* first index (0-based) with the highest packet_count
RECURSIVE TopIdx(_, _, _)
TopIdx(stats, i, top) ==
    IF i > Len(stats) THEN top - 1
    ELSE IF stats[i].packet_count > stats[top].packet_count
         THEN TopIdx(stats, i + 1, i)
         ELSE TopIdx(stats, i + 1, top)

\* sum over the table of c * (log2 T - log2 c), in 1/1024 bits, terms with
\* p <= 0 skipped
RECURSIVE EntropySum(_, _, _)
EntropySum(stats, i, total) ==
    IF i > Len(stats) THEN 0
    ELSE LET c == stats[i].packet_count
         IN  (IF c > 0 THEN c * (Log2Q10(total) - Log2Q10(c)) ELSE 0)
             + EntropySum(stats, i + 1, total)

\* Shannon entropy in milli-bits
Entropy(stats, total) == ((EntropySum(stats, 1, total) \div total) * 1000) \div 1024

\* per-flow packet size bytes/packets in whole bytes
PktSize(r) == r.bytes \div (IF r.packets > 0 THEN r.packets ELSE 1)

\* share of the flow array a record group covers, in 1/1000
Weight(r, count) == (r.n * 1000) \div count

\* sum of pkt_size (pw = 1) or pkt_size^2 (pw = 2) over the flow array,
\* each record group weighted by its share: 1000 * (sum / count)
RECURSIVE SizeSum(_, _, _, _)
SizeSum(records, i, count, pw) ==
    IF i > Len(records) THEN 0
    ELSE (IF pw = 1 THEN PktSize(records[i])
                    ELSE PktSize(records[i]) * PktSize(records[i]))
         * Weight(records[i], count)
         + SizeSum(records, i + 1, count, pw)

RECURSIVE CountProto(_, _, _)
CountProto(records, i, proto) ==
    IF i > Len(records) THEN 0
    ELSE (IF records[i].protocol = proto THEN records[i].n ELSE 0)
         + CountProto(records, i + 1, proto)

ZeroFeatures ==
    [top_ip |-> "", entropy |-> 0, avg_rate |-> 0, spike_score |-> 0,
     total_packets |-> 0, total_flows |-> 0, unique_ips |-> 0,
     flow_duration_mean |-> 0, flow_duration_std |-> 0,
     packet_size_mean |-> 0, packet_size_std |-> 0,
     syn_ratio |-> 0, udp_ratio |-> 0]

compute_features(v, records, count, st) ==
    LET stats == st.stats
        stat_count == Len(stats)
        total_packets == st.total_packets
    IN  IF total_packets <= 0 \/ stat_count <= 0 \/ (v = "enhanced" /\ count <= 0)
        THEN ZeroFeatures
        ELSE
        LET top_idx == TopIdx(stats, 2, 1)
            d0 == st.max_ts - st.min_ts
            duration == IF d0 <= 0 THEN 1 ELSE d0
            psm == SizeSum(records, 1, count, 1)
            pkt_var == SizeSum(records, 1, count, 2) \div 1000
                       - (psm \div 1000) * (psm \div 1000)
            base == [ZeroFeatures EXCEPT
                       !.top_ip = stats[top_idx + 1].ip,
                       !.entropy = Entropy(stats, total_packets),
                       !.avg_rate = (total_packets * 1000) \div duration,
                       !.spike_score = (stats[top_idx + 1].packet_count
                                        * stat_count * 1000) \div total_packets,
                       !.total_packets = total_packets,
                       !.total_flows = IF v = "enhanced" THEN count
                                       ELSE total_packets,
                       !.unique_ips = stat_count]
        IN  IF v = "basic" THEN base
            ELSE [base EXCEPT
                    !.packet_size_mean = psm,
                    !.packet_size_std = sqrt(IF pkt_var > 0 THEN pkt_var ELSE 0) * 1000,
                    !.syn_ratio = (CountProto(records, 1, 6) * 1000) \div count,
                    !.udp_ratio = (CountProto(records, 1, 17) * 1000) \div count,
                    !.flow_duration_mean = duration * 1000]

(***************************************************************************)
(* Detectors.                                                              *)
(***************************************************************************)
\* entropy threshold in milli-bits: 2.0 (enhanced), 1.0 (basic)
EntropyThreshold(v) == IF v = "enhanced" THEN 2000 ELSE 1000

detect_entropy_anomaly(v, f) ==
    IF f.unique_ips <= 1 THEN 1
    ELSE IF f.entropy < EntropyThreshold(v) THEN 1 ELSE 0

\* CusumState; history is the live part history[0..sample_count-1]
init_cusum(v) ==
    [cumsum_pos |-> 0, cumsum_neg |-> 0,
     mean |-> IF v = "enhanced" THEN 1000000 ELSE 0,
     std |-> IF v = "enhanced" THEN 200000 ELSE 0,
     sample_count |-> 0, history |-> <<>>]

RECURSIVE SeqSum(_)
SeqSum(h) == IF h = <<>> THEN 0 ELSE Head(h) + SeqSum(Tail(h))

\* sum of squared deviations from mean, in whole units squared
RECURSIVE SqDevSum(_, _)
SqDevSum(h, mean) ==
    IF h = <<>> THEN 0
    ELSE LET d == TruncDiv(Head(h) - mean, 1000)
         IN  d * d + SqDevSum(Tail(h), mean)

\* a full window that gives up its newest sample instead of its oldest
CusumWindowDropsNewest(state, value) ==
    Append(IF state.sample_count >= CUSUM_WINDOW
           THEN SubSeq(state.history, 1, CUSUM_WINDOW - 1)
           ELSE state.history, value)

\* the window after the shift and the store of the new value
CusumWindow(state, value) ==
    Append(IF state.sample_count >= CUSUM_WINDOW
           THEN SubSeq(state.history, 2, CUSUM_WINDOW)
           ELSE state.history, value)

\* mean over the window
CusumMean(history) == SeqSum(history) \div Len(history)

\* standard deviation over the window; a zero variance counts as 1.0
CusumStd(history, mean) ==
    LET variance == SqDevSum(history, mean) \div Len(history)
    IN  IF variance > 0 THEN sqrt(variance) * 1000 ELSE 1000

\* recurrences that are not clamped at zero
CusumRecurNoClamp(state, value, history, mean, std) ==
    LET deviation == TruncDiv(value - mean, (IF std > 0 THEN std ELSE 1000) \div 1000)
    IN  [cumsum_pos |-> state.cumsum_pos + deviation - 500,
         cumsum_neg |-> state.cumsum_neg - deviation - 500,
         mean |-> mean, std |-> std, sample_count |-> Len(history),
         history |-> history]

\* recurrences that add the slack 0.5 instead of subtracting it
CusumRecurSlackUp(state, value, history, mean, std) ==
    LET deviation == TruncDiv(value - mean, (IF std > 0 THEN std ELSE 1000) \div 1000)
    IN  [cumsum_pos |-> Max(0, state.cumsum_pos + deviation + 500),
         cumsum_neg |-> Max(0, state.cumsum_neg - deviation + 500),
         mean |-> mean, std |-> std, sample_count |-> Len(history),
         history |-> history]

\* the CUSUM recurrences on the standardised deviation
CusumRecur(state, value, history, mean, std) ==
    LET deviation == TruncDiv(value - mean, (IF std > 0 THEN std ELSE 1000) \div 1000)
    IN  [cumsum_pos |-> Max(0, state.cumsum_pos + deviation - 500),
         cumsum_neg |-> Max(0, state.cumsum_neg - deviation - 500),
         mean |-> mean, std |-> std, sample_count |-> Len(history),
         history |-> history]

CusumStats(state, value, history, mean) ==
    CusumRecur(state, value, history, mean, CusumStd(history, mean))

\* statistics that stay at the baseline the state was initialised with
CusumOnBaseline(state, value, history) ==
    CusumRecur(state, value, history, state.mean, state.std)

CusumOn(state, value, history) ==
    CusumStats(state, value, history, CusumMean(history))

\* enhanced: window shift, statistics over the window, CUSUM recurrences
update_cusum(state, value) == CusumOn(state, value, CusumWindow(state, value))

\* enhanced: the flag read off the updated state
CusumFlag(s2) ==
    [flag |-> IF s2.cumsum_pos > 5000 \/ s2.cumsum_neg > 5000 THEN 1 ELSE 0,
     state |-> s2]

\* basic, window not yet full: store the sample, refresh mean and std
CusumWarmup(state, history, mean) ==
    [flag |-> 0,
     state |-> [state EXCEPT
                  !.history = history, !.sample_count = Len(history),
                  !.mean = mean,
                  !.std = sqrt(SqDevSum(history, mean) \div Len(history)) * 1000]]

\* basic, window full: drift-corrected recurrences
CusumDrift(state, deviation) ==
    LET pos == Max(0, state.cumsum_pos + deviation)
        neg == Max(0, state.cumsum_neg - deviation)
    IN  [flag |-> IF pos > 5000 \/ neg > 5000 THEN 1 ELSE 0,
         state |-> [state EXCEPT !.cumsum_pos = pos, !.cumsum_neg = neg]]

\* returns the flag and the state left behind
detect_cusum_anomaly(v, f, state) ==
    IF v = "enhanced"
    THEN CusumFlag(update_cusum(state, f.avg_rate))
    ELSE IF state.sample_count < CUSUM_WINDOW
         THEN CusumWarmup(state, Append(state.history, f.avg_rate),
                          CusumMean(Append(state.history, f.avg_rate)))
         ELSE CusumDrift(state, f.avg_rate - state.mean - state.std \div 2)

\* MLDetector: weights in 1/1000, threshold on the sigmoid output
init_ml_detector(v) ==
    [weights |-> IF v = "enhanced"
                 THEN <<-500, 1, 300, -200, 100, 200, 150, 100, 50, 100>>
                 ELSE <<-500, 300, 400, 200>>,
     threshold |-> 600, trained |-> 1]

\* normalised feature vector in 1/1000
extract_ml_features(v, f) ==
    IF v = "enhanced"
    THEN << f.entropy,
            f.avg_rate \div 10000,
            f.spike_score \div 10,
            f.packet_size_mean \div 1500,
            f.syn_ratio,
            f.udp_ratio,
            1000 \div (f.unique_ips + 1),
            f.flow_duration_mean \div 1000,
            f.packet_size_std \div 500,
            f.total_packets \div 10 >>
    ELSE << f.entropy \div 10,
            f.avg_rate \div 10000,
            f.spike_score \div 100,
            f.unique_ips >>

RECURSIVE Dot(_, _, _)
Dot(w, x, i) == IF i > Len(w) THEN 0 ELSE w[i] * x[i] + Dot(w, x, i + 1)

\* 1/(1+exp(-s)) > 0.6  iff  s > ln(1.5), with s in 1/1000000
SigmoidAbove(score, threshold) == threshold = 600 /\ score > 405465

detect_ml_anomaly(v, f, ml) ==
    IF ml.trained = 0 THEN 0
    ELSE LET score == Dot(ml.weights, extract_ml_features(v, f), 1)
         IN  IF SigmoidAbove(score, ml.threshold) THEN 1 ELSE 0

\* hot IP: the top entry when its packet share exceeds 0.4, else ""
detect_hot_ip(stats, total_packets) ==
    IF total_packets <= 0 \/ Len(stats) <= 0 THEN [flag |-> 0, ip |-> ""]
    ELSE LET top_idx == TopIdx(stats, 2, 1)
         IN  IF 5 * stats[top_idx + 1].packet_count > 2 * total_packets
             THEN [flag |-> 1, ip |-> stats[top_idx + 1].ip]
             ELSE [flag |-> 0, ip |-> ""]

(***************************************************************************)
(* Alerts.                                                                 *)
(***************************************************************************)
\* memset(&alert, 0, sizeof(Alert)); alert.worker_rank = rank
EmptyAlert(rank) ==
    [worker_rank |-> rank, attack_flag |-> 0, suspicious_ip |-> "",
     entropy |-> 0, avg_rate |-> 0, spike_score |-> 0,
     total_packets |-> 0, total_flows |-> 0,
     entropy_detected |-> 0, cusum_detected |-> 0, ml_detected |-> 0,
     processing_time_ms |-> 0, memory_used_kb |-> 0, true_label |-> 0]

\* dataset roots whose name contains "DrDoS" or "Syn"
AttackRoots == {"data/DrDoS_UDP", "data/Syn"}
TrueLabel(v, dataset_root) ==
    IF v = "enhanced" /\ dataset_root \in AttackRoots THEN 1 ELSE 0

\* a vote that a single detector carries
VoteAnyFlag(alert, flag_entropy, flag_cusum, flag_ml, hot_ip, top_ip) ==
    IF flag_entropy + flag_cusum + flag_ml >= 1
    THEN [alert EXCEPT !.attack_flag = 1,
                       !.suspicious_ip = IF hot_ip # "" THEN hot_ip ELSE top_ip]
    ELSE [alert EXCEPT !.attack_flag = 0, !.suspicious_ip = "NONE"]

\* a vote that reports the hot IP only, without the fallback to top_ip
VoteNoFallback(alert, flag_entropy, flag_cusum, flag_ml, hot_ip, top_ip) ==
    IF flag_entropy + flag_cusum + flag_ml >= 2
    THEN [alert EXCEPT !.attack_flag = 1, !.suspicious_ip = hot_ip]
    ELSE [alert EXCEPT !.attack_flag = 0, !.suspicious_ip = "NONE"]

\* a vote that exactly two detectors carry, and three do not
VoteExactlyTwo(alert, flag_entropy, flag_cusum, flag_ml, hot_ip, top_ip) ==
    IF flag_entropy + flag_cusum + flag_ml = 2
    THEN [alert EXCEPT !.attack_flag = 1,
                       !.suspicious_ip = IF hot_ip # "" THEN hot_ip ELSE top_ip]
    ELSE [alert EXCEPT !.attack_flag = 0, !.suspicious_ip = "NONE"]

\* a vote that names no address when it votes attack
VoteLeavesIpUnset(alert, flag_entropy, flag_cusum, flag_ml, hot_ip, top_ip) ==
    IF flag_entropy + flag_cusum + flag_ml >= 2
    THEN [alert EXCEPT !.attack_flag = 1]
    ELSE [alert EXCEPT !.attack_flag = 0, !.suspicious_ip = "NONE"]

\* the 2-of-3 vote and the choice of suspicious_ip
Vote(alert, flag_entropy, flag_cusum, flag_ml, hot_ip, top_ip) ==
    IF flag_entropy + flag_cusum + flag_ml >= 2
    THEN [alert EXCEPT !.attack_flag = 1,
                       !.suspicious_ip = IF hot_ip # "" THEN hot_ip ELSE top_ip]
    ELSE [alert EXCEPT !.attack_flag = 0, !.suspicious_ip = "NONE"]

BuildAlert(v, rank, feats, flag_entropy, flag_cusum, flag_ml, hot_ip, elapsed, flow_count, stat_count, dataset_root) ==
    Vote([EmptyAlert(rank) EXCEPT
            !.entropy = feats.entropy,
            !.avg_rate = feats.avg_rate,
            !.spike_score = feats.spike_score,
            !.total_packets = feats.total_packets,
            !.total_flows = feats.total_flows,
            !.processing_time_ms = elapsed * 1000,
            !.memory_used_kb = (SizeofFlowRecord * flow_count
                                + SizeofIpStat * stat_count) \div 1024,
            !.entropy_detected = flag_entropy,
            !.cusum_detected = flag_cusum,
            !.ml_detected = flag_ml,
            !.true_label = TrueLabel(v, dataset_root)],
         flag_entropy, flag_cusum, flag_ml, hot_ip, feats.top_ip)

\* the locals and the alert once the flags are known
Voted(v, rank, dataset_root, elapsed, flow_count, stat_count, feats, flag_entropy, flag_cusum, flag_ml, hot_ip) ==
    [path |-> "detect", flow_count |-> flow_count, stat_count |-> stat_count,
     top_ip |-> feats.top_ip, hot_ip |-> hot_ip,
     flag_entropy |-> flag_entropy, flag_cusum |-> flag_cusum,
     flag_ml |-> flag_ml,
     alert |-> BuildAlert(v, rank, feats, flag_entropy, flag_cusum, flag_ml,
                          hot_ip, elapsed, flow_count, stat_count,
                          dataset_root)]

\* the three detectors and detect_hot_ip on the features and the table
Detectors(v, rank, dataset_root, elapsed, flow_count, st, feats) ==
    Voted(v, rank, dataset_root, elapsed, flow_count, Len(st.stats), feats,
          detect_entropy_anomaly(v, feats),
          detect_cusum_anomaly(v, feats, init_cusum(v)).flag,
          detect_ml_anomaly(v, feats, init_ml_detector(v)),
          detect_hot_ip(st.stats, st.total_packets).ip)

\* compute_features on the aggregated table
Extract(v, rank, dataset_root, records, elapsed, flow_count, st) ==
    Detectors(v, rank, dataset_root, elapsed, flow_count, st,
              compute_features(v, records, flow_count, st))

\* everything worker_start computes between load_partition and MPI_Send
Detect(v, rank, dataset_root, records, elapsed) ==
    Extract(v, rank, dataset_root, records, elapsed, FlowCount(records),
            build_ip_stats(v, records))

(***************************************************************************)
(* Shard files offered to the workers.  Each rank reads one of them as its *)
(* part_<rank>.csv.  Files B* are written in the shard grammar (read by    *)
(* the basic parser), files E* in the CIC grammar (read by the enhanced    *)
(* parser); a file in the other grammar yields no record.                  *)
(***************************************************************************)
BLine(ip, ts, reps) == DataLine("shard", 8, ip, 500, ts, 17, 2, reps)
ELine(ip, pkts, reps) == DataLine("cic", 10, ip, 0, 0, 17, pkts, reps)

HeaderOnly == <<HeaderLine(TRUE)>>
\* one source, 20000 flows in one second
BFlood1 == <<HeaderLine(FALSE), CommentLine, BLine("10.0.0.1", 100, 20000)>>
\* same rate, other source
BFlood2 == <<HeaderLine(FALSE), BLine("10.0.0.2", 100, 20000)>>
\* one source, 30000 flows in one second, a malformed line in between
BFlood3 == <<HeaderLine(FALSE), DataLine("shard", 3, "10.0.0.4", 500, 0, 0, 0, 1),
             BLine("10.0.0.3", 100, 30000)>>
\* two sources, equal shares, high rate: only the ML detector fires
BEven == <<HeaderLine(FALSE), BLine("10.0.0.1", 100, 20000),
           BLine("10.0.0.2", 100, 20000)>>
\* three flows over ten seconds: only the entropy detector fires
BCalm == <<HeaderLine(FALSE), BLine("10.0.0.1", 100, 1), BlankLine,
           BLine("10.0.0.2", 110, 2)>>
\* one source, 5000 flows of 3 packets
EFlood1 == <<HeaderLine(TRUE), CommentLine, ELine("10.0.0.1", 3, 5000)>>
\* one flow of 60000 packets
EFlood2 == <<HeaderLine(TRUE), ELine("10.0.0.2", 60000, 1)>>
\* same rate, other source, a malformed line in between
EFlood3 == <<HeaderLine(TRUE), DataLine("cic", 5, "10.0.0.4", 0, 0, 17, 0, 1),
             ELine("10.0.0.3", 60000, 1)>>
\* shares 0.4/0.3/0.3: entropy and ML fire, no hot IP
ESpread == <<HeaderLine(TRUE), ELine("10.0.0.1", 40000, 1),
             ELine("10.0.0.2", 30000, 1), ELine("10.0.0.3", 30000, 1)>>
\* four equal sources with heavy flows: only the ML detector fires
EEven == <<HeaderLine(TRUE), ELine("10.0.0.1", 30000, 1),
           ELine("10.0.0.2", 30000, 1), ELine("10.0.0.3", 30000, 1),
           ELine("10.0.0.4", 30000, 1)>>
\* a single light flow: only the entropy detector fires
ECalm == <<HeaderLine(TRUE), BlankLine, ELine("10.0.0.1", 1, 1)>>

\* two sources, one flow each, ten seconds apart: no detector fires
BQuiet == <<HeaderLine(FALSE), BLine("10.0.0.1", 100, 1), BLine("10.0.0.2", 110, 1)>>
\* four sources, one light flow each: no detector fires
EQuiet == <<HeaderLine(TRUE), ELine("10.0.0.1", 1, 1), ELine("10.0.0.2", 1, 1),
            ELine("10.0.0.3", 1, 1), ELine("10.0.0.4", 1, 1)>>

Shards == {NoFile, HeaderOnly, BFlood1, BFlood2, BFlood3, BEven, BCalm, BQuiet,
           EFlood1, EFlood2, EFlood3, ESpread, EEven, ECalm, EQuiet}

\* the files offered when several workers run: per variant two floods of
\* equal rate, one of another rate, one calm shard, and the absent file
ProtoShards == {NoFile, BFlood1, BFlood2, BFlood3, BCalm,
                EFlood2, EFlood3, ESpread, ECalm}

\* the inputs (shard file, seconds the clock advances meanwhile) a worker may
\* meet in a run of n ranks: every file and clock advance when it is the
\* only worker, the files above with a still clock otherwise
Inputs(n) ==
    IF n <= 2 THEN Shards \X (0..MaxTicks) ELSE ProtoShards \X {0}

\* worker_start from load_partition to the alert, for a given shard file and
\* clock advance: the locals it leaves behind (alert included)
WorkerOn(v, rank, root, records, elapsed) ==
    IF FlowCount(records) <= 0
    THEN [path |-> "no_data", flow_count |-> 0, stat_count |-> 0,
          top_ip |-> "", hot_ip |-> "", flag_entropy |-> 0,
          flag_cusum |-> 0, flag_ml |-> 0, alert |-> EmptyAlert(rank)]
    ELSE Detect(v, rank, root, records, elapsed)

WorkerRun(v, rank, root, file, elapsed) ==
    WorkerOn(v, rank, root, load_partition(v, file, Epoch, elapsed), elapsed)

(***************************************************************************)
(* Coordinator: the body of the receive loop and the verdict, as pure      *)
(* functions of the coordinator's locals.                                  *)
(***************************************************************************)
\* init_performance_metrics; wall-clock fields (latency, throughput,
\* communication overhead) are not part of the model
init_performance_metrics ==
    [packets_processed |-> 0, bytes_processed |-> 0,
     true_positives |-> 0, false_positives |-> 0,
     true_negatives |-> 0, false_negatives |-> 0]

\* the coordinator's locals when it enters the receive loop
CoordLocals ==
    [alerts |-> <<>>, attack_votes |-> 0, chosen_index |-> -1,
     aggregated_metrics |-> init_performance_metrics]

\* a confusion matrix that counts every attack vote as a true positive and
\* every other alert as a true negative, whatever the ground truth
ConfusionIgnoresLabel(m, a) ==
    IF a.attack_flag # 0
    THEN [m EXCEPT !.true_positives = @ + 1]
    ELSE [m EXCEPT !.true_negatives = @ + 1]

\* confusion-matrix update (enhanced only)
Confusion(m, a) ==
    IF a.attack_flag # 0 /\ a.true_label # 0
    THEN [m EXCEPT !.true_positives = @ + 1]
    ELSE IF a.attack_flag # 0 /\ a.true_label = 0
    THEN [m EXCEPT !.false_positives = @ + 1]
    ELSE IF a.attack_flag = 0 /\ a.true_label # 0
    THEN [m EXCEPT !.false_negatives = @ + 1]
    ELSE [m EXCEPT !.true_negatives = @ + 1]

\* a choice that a later alert of equal rate takes over
ReplacesOnTie(alerts, chosen_index, i) ==
    \/ chosen_index = -1
    \/ alerts[i + 1].avg_rate >= alerts[chosen_index + 1].avg_rate

\* a choice that every later attack alert takes over
ReplacesAlways(alerts, chosen_index, i) ==
    \/ chosen_index = -1
    \/ alerts[i + 1].avg_rate >= 0

\* does the newly received alert (at C index i) replace the chosen one?
Replaces(alerts, chosen_index, i) ==
    \/ chosen_index = -1
    \/ alerts[i + 1].avg_rate > alerts[chosen_index + 1].avg_rate

\* an iteration that lets every alert, voting attack or not, become the choice
RecvStepAnyAlert(v, c, a) ==
    LET i == Len(c.alerts)
        alerts == Append(c.alerts, a)
        m1 == IF v = "enhanced"
              THEN Confusion([c.aggregated_metrics EXCEPT
                                !.packets_processed = @ + a.total_packets,
                                !.bytes_processed = @ + a.total_packets * 500], a)
              ELSE c.aggregated_metrics
    IN  [alerts |-> alerts,
         attack_votes |-> IF a.attack_flag # 0 THEN c.attack_votes + 1
                          ELSE c.attack_votes,
         chosen_index |-> IF Replaces(alerts, c.chosen_index, i)
                          THEN i ELSE c.chosen_index,
         aggregated_metrics |-> m1]

\* one iteration of the loop after MPI_Recv stored alert a in alerts[i]
RecvStep(v, c, a) ==
    LET i == Len(c.alerts)
        alerts == Append(c.alerts, a)
        m1 == IF v = "enhanced"
              THEN Confusion([c.aggregated_metrics EXCEPT
                                !.packets_processed = @ + a.total_packets,
                                !.bytes_processed = @ + a.total_packets * 500], a)
              ELSE c.aggregated_metrics
    IN  [alerts |-> alerts,
         attack_votes |-> IF a.attack_flag # 0 THEN c.attack_votes + 1
                          ELSE c.attack_votes,
         chosen_index |-> IF a.attack_flag # 0 /\ Replaces(alerts, c.chosen_index, i)
                          THEN i ELSE c.chosen_index,
         aggregated_metrics |-> m1]

\* the vote threshold of the global decision
VoteThreshold(v, num_workers) ==
    IF v = "enhanced" THEN num_workers \div 2 ELSE 2

GlobalAttack(v, c, num_workers) ==
    IF c.attack_votes >= VoteThreshold(v, num_workers) /\ c.chosen_index # -1
    THEN 1 ELSE 0

ChosenIp(v, c, num_workers) ==
    IF GlobalAttack(v, c, num_workers) = 1
    THEN c.alerts[c.chosen_index + 1].suspicious_ip ELSE ""

ZeroBlockingStats ==
    [blocked_ip |-> "", attack_packets_blocked |-> 0,
     legitimate_packets_blocked |-> 0, blocking_efficiency |-> 0,
     collateral_damage |-> 0]

\* BlockingStats after apply_rtbh and apply_acl (block_time_ms, a wall-clock
\* value, is not part of the model)
Blocking(v, c, ip) ==
    IF v = "enhanced"
    THEN [blocked_ip |-> ip,
          attack_packets_blocked |->
              (c.alerts[c.chosen_index + 1].total_packets * 95) \div 100,
          legitimate_packets_blocked |->
              (c.alerts[c.chosen_index + 1].total_packets * 5) \div 100,
          blocking_efficiency |-> 950, collateral_damage |-> 50]
    ELSE [blocked_ip |-> ip, attack_packets_blocked |-> 950,
          legitimate_packets_blocked |-> 10,
          blocking_efficiency |-> 950, collateral_damage |-> 10]

\* the lines apply_acl appends to results/metrics/iptables_rules.txt
apply_acl(v, ip) ==
    IF v = "basic"
    THEN << <<"iptables -A INPUT -s", ip, "-j DROP">>,
            <<"iptables -A OUTPUT -d", ip, "-j DROP">> >>
    ELSE <<>>

\* the rows append_alert_log writes, one per received alert
RECURSIVE AlertRows(_, _, _, _)
AlertRows(alerts, i, global_attack_flag, ip) ==
    IF i > Len(alerts) THEN <<>>
    ELSE <<[alert |-> alerts[i], global_attack |-> global_attack_flag,
            chosen_ip |-> IF ip # "" THEN ip ELSE "NONE"]>>
         \o AlertRows(alerts, i + 1, global_attack_flag, ip)

append_alert_log(alerts, num_alerts, global_attack_flag, ip) ==
    AlertRows(SubSeq(alerts, 1, num_alerts), 1, global_attack_flag, ip)

(***************************************************************************)
(* The run: main() on every rank.                                          *)
(***************************************************************************)
VARIABLES
    variant,          \* which detector translation unit is linked
    mode,             \* MPI_Send completes "eager" (buffered) or on "rendezvous"
    size,             \* number of ranks (MPI_Comm_size)
    argc,             \* main's argc
    dataset_root,     \* argv[1]
    wpc,              \* per worker rank: position in main/worker_start
    wres,             \* per worker rank: the locals worker_start computed
    sends,            \* per worker rank: number of MPI_Send calls made
    net,              \* alerts sent and not yet received
    started,          \* ranks on which coordinator_start/worker_start was called
    cpc,              \* rank 0: position in main/coordinator_start
    recv_posted,      \* number of MPI_Recv calls rank 0 has made
    alerts, attack_votes, chosen_index, aggregated_metrics,
    global_attack, chosen_ip, blocking_stats,
    alert_log,        \* rows appended to results/metrics/alerts.csv
    perf_log,         \* rows appended to results/metrics/performance.csv
    blocking_log,     \* rows appended to results/metrics/blocking.csv
    iptables_rules,   \* lines appended to results/metrics/iptables_rules.txt
    unit              \* a function of the program exercised on its own

\* the run configuration; unit stays idle throughout a run of the program
cfg == <<variant, mode, size, argc, dataset_root, unit>>
wvars == <<wpc, wres, sends>>
cvars == <<cpc, recv_posted, alerts, attack_votes, chosen_index,
           aggregated_metrics>>
dvars == <<global_attack, chosen_ip, blocking_stats>>
files == <<alert_log, perf_log, blocking_log, iptables_rules>>
vars == <<cfg, wvars, net, started, cvars, dvars, files>>

Modes == {"eager", "rendezvous"}
Roots == {"data", "data/DrDoS_UDP"}
Ranks == 0..(MaxRanks - 1)
AllWorkers == 1..(MaxRanks - 1)
Workers == 1..(size - 1)
num_workers == size - 1

\* every run of worker_start the model offers, tabulated once
Runs ==
    [v \in Variants, root \in Roots, w \in AllWorkers, file \in Shards,
     elapsed \in 0..MaxTicks |-> WorkerRun(v, w, root, file, elapsed)]

NoResult ==
    [path |-> "none", flow_count |-> 0, stat_count |-> 0, top_ip |-> "",
     hot_ip |-> "", flag_entropy |-> 0, flag_cusum |-> 0, flag_ml |-> 0,
     alert |-> EmptyAlert(0)]

\* no function is exercised on its own
Idle == [kind |-> "idle"]

\* the ranks of a run right after MPI_Init
Boot ==
    /\ variant \in Variants
    /\ mode \in Modes
    /\ size \in 1..MaxRanks
    /\ argc \in {1, 2}
    /\ dataset_root \in Roots
    /\ wpc = [w \in AllWorkers |-> IF w < size THEN "init" ELSE "absent"]
    /\ wres = [w \in AllWorkers |-> NoResult]
    /\ sends = [w \in AllWorkers |-> 0]
    /\ net = {}
    /\ started = {}
    /\ cpc = "init"
    /\ recv_posted = 0
    /\ alerts = <<>>
    /\ attack_votes = 0
    /\ chosen_index = -1
    /\ aggregated_metrics = init_performance_metrics
    /\ global_attack = 0
    /\ chosen_ip = ""
    /\ blocking_stats = ZeroBlockingStats
    /\ alert_log = <<>>
    /\ perf_log = <<>>
    /\ blocking_log = <<>>
    /\ iptables_rules = <<>>

Init == Boot /\ unit = Idle

\* a usage test that lets a run without data root through when it has a worker
UsageBoth == argc < 2 /\ size < 2

\* main: argc < 2 or size < 2 prints the usage and finalizes
Usage == argc < 2 \/ size < 2

MainUsageWorker(w) ==
    /\ wpc[w] = "init"
    /\ Usage
    /\ wpc' = [wpc EXCEPT ![w] = "done"]
    /\ UNCHANGED <<cfg, wres, sends, net, started, cvars, dvars, files>>

MainUsageCoordinator ==
    /\ cpc = "init"
    /\ Usage
    /\ cpc' = "done"
    /\ UNCHANGED <<cfg, wvars, net, started, recv_posted, alerts, attack_votes,
                   chosen_index, aggregated_metrics, dvars, files>>

\* main's return value on a rank that has left main (each of its exits is
\* return 0); -1 while the rank is still inside
ExitCode(pc) == IF pc = "done" THEN 0 ELSE -1

(***************************************************************************)
(* worker_start.  The worker's computation touches only its own locals, so *)
(* each path through the function up to MPI_Send (or up to the return) is  *)
(* one step.                                                               *)
(***************************************************************************)
\* a send under a tag the coordinator's receive does not match
MPI_SendOtherTag(w, r) ==
    /\ wres' = [wres EXCEPT ![w] = r]
    /\ sends' = [sends EXCEPT ![w] = @ + 1]
    /\ net' = net
    /\ wpc' = [wpc EXCEPT ![w] = IF mode = "eager" THEN "done" ELSE "sending"]

\* MPI_Send(&alert, ...): the message is on its way; the call returns at
\* once when buffered, otherwise when the coordinator has received it
MPI_Send(w, r) ==
    /\ wres' = [wres EXCEPT ![w] = r]
    /\ sends' = [sends EXCEPT ![w] = @ + 1]
    /\ net' = net \cup {r.alert}
    /\ wpc' = [wpc EXCEPT ![w] = IF mode = "eager" THEN "done" ELSE "sending"]

\* a worker that appends its alert to alerts.csv
WorkerLogs(w) ==
    /\ alert_log' = Append(alert_log, w)
    /\ UNCHANGED <<perf_log, blocking_log, iptables_rules>>

\* what a step of worker_start writes to the result files: nothing (it opens
\* no file but its shard, for reading)
WorkerWrites(w) == UNCHANGED files

\* malloc of the FlowRecord array fails: return without sending
WorkerAllocFail(w) ==
    /\ wpc[w] = "init"
    /\ ~Usage
    /\ started' = started \cup {w}
    /\ wres' = [wres EXCEPT ![w] = [NoResult EXCEPT !.path = "alloc_fail"]]
    /\ wpc' = [wpc EXCEPT ![w] = "done"]
    /\ UNCHANGED <<cfg, sends, net, cvars, dvars>>
    /\ WorkerWrites(w)

\* load_partition returns no record: send the zeroed alert
WorkerNoData(w) ==
    /\ wpc[w] = "init"
    /\ ~Usage
    /\ \E in \in Inputs(size) :
          \E r \in {Runs[variant, dataset_root, w, in[1], in[2]]} :
              /\ r.flow_count <= 0
              /\ MPI_Send(w, r)
    /\ started' = started \cup {w}
    /\ UNCHANGED <<cfg, cvars, dvars>>
    /\ WorkerWrites(w)

\* records were loaded, malloc of the IpStat table fails: return without sending
WorkerStatsAllocFail(w) ==
    /\ wpc[w] = "init"
    /\ ~Usage
    /\ \E in \in Inputs(size) :
          \E r \in {Runs[variant, dataset_root, w, in[1], in[2]]} :
              /\ r.flow_count > 0
              /\ wres' = [wres EXCEPT ![w] =
                            [NoResult EXCEPT !.path = "stats_alloc_fail"]]
    /\ started' = started \cup {w}
    /\ wpc' = [wpc EXCEPT ![w] = "done"]
    /\ UNCHANGED <<cfg, sends, net, cvars, dvars>>
    /\ WorkerWrites(w)

\* records were loaded: aggregate, extract features, detect, vote, send
WorkerDetect(w) ==
    /\ wpc[w] = "init"
    /\ ~Usage
    /\ \E in \in Inputs(size) :
          \E r \in {Runs[variant, dataset_root, w, in[1], in[2]]} :
              /\ r.flow_count > 0
              /\ MPI_Send(w, r)
    /\ started' = started \cup {w}
    /\ UNCHANGED <<cfg, cvars, dvars>>
    /\ WorkerWrites(w)

\* the blocked MPI_Send has been matched: free, return, MPI_Finalize
WorkerReturn(w) ==
    /\ wpc[w] = "sent"
    /\ wpc' = [wpc EXCEPT ![w] = "done"]
    /\ UNCHANGED <<cfg, wres, sends, net, started, cvars, dvars>>
    /\ WorkerWrites(w)

(***************************************************************************)
(* coordinator_start.                                                      *)
(***************************************************************************)
\* malloc of the alert buffer fails: return
CoordAllocFail ==
    /\ cpc = "init"
    /\ ~Usage
    /\ num_workers > 0
    /\ started' = started \cup {0}
    /\ cpc' = "done"
    /\ UNCHANGED <<cfg, wvars, net, recv_posted, alerts, attack_votes,
                   chosen_index, aggregated_metrics, dvars, files>>

\* locals initialised, loop entered, first MPI_Recv posted
CoordStart ==
    /\ cpc = "init"
    /\ ~Usage
    /\ num_workers > 0
    /\ started' = started \cup {0}
    /\ alerts' = CoordLocals.alerts
    /\ attack_votes' = CoordLocals.attack_votes
    /\ chosen_index' = CoordLocals.chosen_index
    /\ aggregated_metrics' = CoordLocals.aggregated_metrics
    /\ recv_posted' = 1
    /\ cpc' = "recv"
    /\ UNCHANGED <<cfg, wvars, net, dvars, files>>

\* a loop that posts one receive too many
LoopOneMore(i) == i <= num_workers

\* a loop that stops one receive short
LoopOneShort(i) == i < num_workers - 1

\* the loop continues while i < num_workers
LoopContinues(i) == i < num_workers

\* MPI_Recv from MPI_ANY_SOURCE returns some alert in flight; the loop body
\* runs and either posts the next receive or leaves the loop
CoordRecv ==
    /\ cpc = "recv"
    /\ \E a \in net :
          LET c == RecvStep(variant,
                            [alerts |-> alerts, attack_votes |-> attack_votes,
                             chosen_index |-> chosen_index,
                             aggregated_metrics |-> aggregated_metrics], a)
          IN  /\ net' = net \ {a}
              /\ alerts' = c.alerts
              /\ attack_votes' = c.attack_votes
              /\ chosen_index' = c.chosen_index
              /\ aggregated_metrics' = c.aggregated_metrics
              /\ wpc' = [w \in AllWorkers |->
                           IF w = a.worker_rank /\ wpc[w] = "sending"
                           THEN "sent" ELSE wpc[w]]
              /\ IF LoopContinues(Len(c.alerts))
                 THEN /\ recv_posted' = recv_posted + 1
                      /\ cpc' = "recv"
                 ELSE /\ recv_posted' = recv_posted
                      /\ cpc' = "decide"
    /\ UNCHANGED <<cfg, wres, sends, started, dvars, files>>

\* the global decision; on attack apply_rtbh and apply_acl (and, in the basic
\* variant, log_blocking_stats) run here
CoordDecide ==
    /\ cpc = "decide"
    /\ LET c == [alerts |-> alerts, attack_votes |-> attack_votes,
                 chosen_index |-> chosen_index,
                 aggregated_metrics |-> aggregated_metrics]
           g == GlobalAttack(variant, c, num_workers)
           ip == ChosenIp(variant, c, num_workers)
       IN  /\ global_attack' = g
           /\ chosen_ip' = ip
           /\ IF g = 1
              THEN /\ blocking_stats' = Blocking(variant, c, ip)
                   /\ iptables_rules' = iptables_rules \o apply_acl(variant, ip)
                   /\ blocking_log' = IF variant = "basic"
                                      THEN Append(blocking_log,
                                                  Blocking(variant, c, ip))
                                      ELSE blocking_log
              ELSE UNCHANGED <<blocking_stats, iptables_rules, blocking_log>>
    /\ cpc' = "log"
    /\ UNCHANGED <<cfg, wvars, net, started, recv_posted, alerts, attack_votes,
                   chosen_index, aggregated_metrics, alert_log, perf_log>>

\* the rows log_performance_metrics appends: one in the enhanced variant;
\* the basic coordinator never calls it
PerfRows(v, m) == IF v = "enhanced" THEN <<m>> ELSE <<>>

\* append_alert_log, log_performance_metrics, log_blocking_stats; free;
\* return; MPI_Finalize
CoordLog ==
    /\ cpc = "log"
    /\ alert_log' = alert_log \o append_alert_log(alerts, num_workers,
                                                  global_attack, chosen_ip)
    /\ perf_log' = perf_log \o PerfRows(variant, aggregated_metrics)
    /\ blocking_log' = IF variant = "enhanced" /\ global_attack = 1
                       THEN Append(blocking_log, blocking_stats)
                       ELSE blocking_log
    /\ cpc' = "done"
    /\ UNCHANGED <<cfg, wvars, net, started, recv_posted, alerts, attack_votes,
                   chosen_index, aggregated_metrics, dvars, iptables_rules>>

Next ==
    \/ MainUsageCoordinator
    \/ CoordAllocFail
    \/ CoordStart
    \/ CoordRecv
    \/ CoordDecide
    \/ CoordLog
    \/ \E w \in AllWorkers :
          \/ MainUsageWorker(w)
          \/ WorkerAllocFail(w)
          \/ WorkerNoData(w)
          \/ WorkerStatsAllocFail(w)
          \/ WorkerDetect(w)
          \/ WorkerReturn(w)

Spec == Init /\ [][Next]_vars

\* every rank is scheduled; the coordinator, once it can step, does
FairSpec ==
    /\ Spec
    /\ WF_vars(CoordRecv \/ CoordDecide \/ CoordLog)
    /\ WF_vars(MainUsageCoordinator)
    /\ \A w \in AllWorkers : WF_vars(MainUsageWorker(w))
    /\ \A w \in AllWorkers : WF_vars(WorkerReturn(w))

\* every rank is a process of its own that runs: a rank that has entered
\* main goes on into coordinator_start or worker_start
LiveSpec ==
    /\ FairSpec
    /\ WF_vars(CoordStart)
    /\ \A w \in AllWorkers : WF_vars(WorkerNoData(w) \/ WorkerDetect(w))

(***************************************************************************)
(* Functions of the program exercised on their own.  No rank runs (the     *)
(* program is parked in its usage exit); unit holds the arguments and the  *)
(* result of the function under study, for the linked variant.             *)
(***************************************************************************)
rest == <<variant, mode, size, argc, dataset_root, wvars, net, started, cvars,
          dvars, files>>

Parked == Boot /\ mode = "eager" /\ size = 1 /\ argc = 1 /\ dataset_root = "data"

(* The vote of worker_start on a triple of detector flags.                 *)
Flags == {0, 1}
Ips == {"10.0.0.1", "10.0.0.2"}

VoteStart ==
    {[kind |-> "vote", flag_entropy |-> e, flag_cusum |-> c, flag_ml |-> m,
      hot_ip |-> h, top_ip |-> t, voted |-> FALSE, raised |-> FALSE,
      before |-> 0, alert |-> EmptyAlert(1)] :
        e \in Flags, c \in Flags, m \in Flags, h \in {""} \cup Ips, t \in Ips}

\* the alert after the vote on the flags held in u
VoteOf(u) ==
    Vote(u.alert, u.flag_entropy, u.flag_cusum, u.flag_ml, u.hot_ip, u.top_ip)

\* the vote on the triple
CastVote ==
    /\ unit.kind = "vote" /\ ~unit.voted
    /\ unit' = [unit EXCEPT !.voted = TRUE, !.alert = VoteOf(unit)]
    /\ UNCHANGED rest

\* the vote again, with one more detector firing and nothing else changed
RaiseFlag(f) ==
    /\ unit.kind = "vote" /\ unit.voted
    /\ unit[f] = 0
    /\ unit' = [unit EXCEPT ![f] = 1, !.raised = TRUE,
                            !.before = unit.alert.attack_flag,
                            !.alert = VoteOf([unit EXCEPT ![f] = 1])]
    /\ UNCHANGED rest

(* The loop of build_ip_stats, one flow at a time, from its first          *)
(* iteration or from a table that MAX_UNIQUE_IPS distinct sources filled.  *)
MaxAdded == 3

UnitFlow(ip, pk) ==
    [src_ip |-> ip, bytes |-> 500, packets |-> pk, timestamp |-> 100,
     ts_last |-> 100, protocol |-> 17, n |-> 1]

\* the accumulators when the loop is entered
StartAcc ==
    [stats |-> <<>>, total_packets |-> 0, total_bytes |-> 0,
     min_ts |-> 100, max_ts |-> 100]

\* the accumulators after one flow from each of MAX_UNIQUE_IPS sources
FullAcc(v) ==
    [stats |-> [i \in 1..MAX_UNIQUE_IPS |->
                  [ip |-> ToString(i),
                   packet_count |-> PacketsOf(v, UnitFlow(ToString(i), 2)),
                   byte_count |-> 500]],
     total_packets |-> MAX_UNIQUE_IPS * PacketsOf(v, UnitFlow("1", 2)),
     total_bytes |-> MAX_UNIQUE_IPS * 500,
     min_ts |-> 100, max_ts |-> 100]

StatsStart ==
    {[kind |-> "stats", acc |-> a, added |-> 0] :
        a \in {StartAcc, FullAcc(variant)}}

\* the next iteration of the loop, on a flow from source ip
AddFlow(ip, pk) ==
    /\ unit.kind = "stats" /\ unit.added < MaxAdded
    /\ unit' = [unit EXCEPT
                  !.acc = BuildStep(variant, unit.acc, UnitFlow(ip, pk)),
                  !.added = @ + 1]
    /\ UNCHANGED rest

(* The CUSUM detector called again and again on one CusumState.  Any      *)
(* sample may come in the first MaxFree calls and in the MaxFree calls     *)
(* after the window has filled; in between the sample is the current mean. *)
(* The sample 50000 is offered to the first call only.                     *)
MaxFree == 3

\* the largest sample offered after the first call
MaxLater == 5000000

\* avg_rate samples, in 1/1000 packets per second: 0, 1200, 5000, 50000
Rates == {0, 1200000, 5000000, 50000000}

CusumStart ==
    {[kind |-> "cusum", state |-> init_cusum(variant), calls |-> 0,
      mean_run |-> 0, x |-> 0, flag |-> 0, fired |-> 0]}

\* one call of detect_cusum_anomaly with avg_rate = x on the state held
CusumCall(x) ==
    unit' = [unit EXCEPT
               !.state = detect_cusum_anomaly(variant,
                            [ZeroFeatures EXCEPT !.avg_rate = x], unit.state).state,
               !.flag = detect_cusum_anomaly(variant,
                            [ZeroFeatures EXCEPT !.avg_rate = x], unit.state).flag,
               !.fired = Max(@, detect_cusum_anomaly(variant,
                            [ZeroFeatures EXCEPT !.avg_rate = x], unit.state).flag),
               !.calls = @ + 1,
               !.x = x,
               !.mean_run = IF unit.mean_run = unit.calls /\ x = unit.state.mean
                            THEN @ + 1 ELSE -1]

Sample(x) ==
    /\ unit.kind = "cusum"
    /\ \/ unit.calls < MaxFree
       \/ unit.calls >= CUSUM_WINDOW /\ unit.calls < CUSUM_WINDOW + MaxFree
    /\ x <= MaxLater \/ unit.calls = 0
    /\ CusumCall(x)
    /\ UNCHANGED rest

\* a sample equal to the mean the state holds, ever since init
SampleMean ==
    /\ unit.kind = "cusum"
    /\ unit.mean_run = unit.calls
    /\ unit.calls < CUSUM_WINDOW
    /\ CusumCall(unit.state.mean)
    /\ UNCHANGED rest

(* update_cusum called again and again on one CusumState, with a record of *)
(* every sample passed.  The first MaxFree samples and the MaxFree samples  *)
(* after the window has filled are free; in between the n-th sample is n.   *)
HistoryRates == {0, 7000, 250000}
HistoryStart ==
    {[kind |-> "history", state |-> init_cusum("enhanced"), seen |-> <<>>]}

Feed(x) ==
    /\ unit.kind = "history"
    /\ Len(unit.seen) < CUSUM_WINDOW + MaxFree
    /\ IF Len(unit.seen) < MaxFree \/ Len(unit.seen) >= CUSUM_WINDOW
       THEN x \in HistoryRates
       ELSE x = (Len(unit.seen) + 1) * 1000
    /\ unit' = [unit EXCEPT !.state = update_cusum(unit.state, x),
                            !.seen = Append(@, x)]
    /\ UNCHANGED rest

(* worker_start run twice on the same shard, by the same rank, with the    *)
(* same dataset root; the wall clock advances as it will in each run.      *)
ReplayStart ==
    {[kind |-> "replay", rank |-> 1, file |-> f, runs |-> 0,
      first |-> EmptyAlert(0), second |-> EmptyAlert(0)] : f \in Shards}

\* one run of the worker, in which the clock advances by elapsed seconds
RunWorker(elapsed) ==
    /\ unit.kind = "replay" /\ unit.runs < 2
    /\ unit' = IF unit.runs = 0
               THEN [unit EXCEPT
                       !.runs = 1,
                       !.first = Runs[variant, dataset_root, unit.rank,
                                      unit.file, elapsed].alert]
               ELSE [unit EXCEPT
                       !.runs = 2,
                       !.second = Runs[variant, dataset_root, unit.rank,
                                       unit.file, elapsed].alert]
    /\ UNCHANGED rest

(* load_partition on a shard of a header and one data line, in either      *)
(* grammar, whose numeric fields take negative, zero and positive values;  *)
(* a shard line may stop after any of its fields.                          *)
FieldValues == {-100, 0, 3}
OneLineFiles ==
    {<<HeaderLine(TRUE), DataLine(f, n, "10.0.0.1", b, 100, 17, pk, 1)>> :
        f \in {"shard", "cic"}, n \in {3, 4, 8, 10}, b \in FieldValues,
        pk \in FieldValues}
\* the header src_ip,dst_ip,bytes,timestamp,protocol,src_port,dst_port,packets
\* (it contains neither "Source IP" nor "Flow ID")
ShardHeader == HeaderLine(FALSE)
\* shards of that header and well-formed lines of its grammar, with and
\* without comment and blank lines in between: 0, 1, 3 and MAX_FLOWS lines
WellFormedShards ==
    {<<ShardHeader>>,
     <<ShardHeader, BLine("10.0.0.1", 100, 1)>>,
     <<ShardHeader, BLine("10.0.0.1", 100, 1), CommentLine, BlankLine,
       BLine("10.0.0.2", 101, 2)>>,
     <<ShardHeader, BLine("10.0.0.1", 100, MAX_FLOWS)>>}
\* shards of two sources, each in the grammar of one build: the first
\* source sends one flow of 5 packets, the second one flow of pk packets
SecondPackets == {-2, 0, 5}
TwoSourceFiles ==
    {<<HeaderLine(TRUE),
       DataLine(f, IF f = "shard" THEN 8 ELSE 10, "10.0.0.1", 500, 100, 17, 5, 1),
       DataLine(f, IF f = "shard" THEN 8 ELSE 10, "10.0.0.2", 500, 101, 17, pk, 1)>> :
        f \in {"shard", "cic"}, pk \in SecondPackets}
\* three sources with 2, 2 and 1 packets, in the grammar of each build: the
\* top share is exactly 0.4
BoundaryFiles ==
    {<<HeaderLine(TRUE), ELine("10.0.0.1", 2, 1), ELine("10.0.0.2", 2, 1),
       ELine("10.0.0.3", 1, 1)>>,
     <<HeaderLine(TRUE), BLine("10.0.0.1", 100, 2), BLine("10.0.0.2", 100, 2),
       BLine("10.0.0.3", 100, 1)>>}
LoadFiles ==
    OneLineFiles \cup WellFormedShards \cup TwoSourceFiles \cup BoundaryFiles
LoadStart ==
    {[kind |-> "load", file |-> f, loaded |-> FALSE, records |-> <<>>,
      built |-> FALSE, acc |-> StartAcc,
      featured |-> FALSE, feats |-> ZeroFeatures,
      hot_done |-> FALSE, hot |-> [flag |-> 0, ip |-> ""]] : f \in LoadFiles}

\* the worker reads its shard
LoadShard ==
    /\ unit.kind = "load" /\ ~unit.loaded
    /\ unit' = [unit EXCEPT !.loaded = TRUE,
                            !.records = load_partition(variant, unit.file, Epoch, 0)]
    /\ UNCHANGED rest

\* the worker aggregates the records it has read
BuildStats ==
    /\ unit.kind = "load" /\ unit.loaded /\ ~unit.built
    /\ unit' = [unit EXCEPT !.built = TRUE,
                            !.acc = build_ip_stats(variant, unit.records)]
    /\ UNCHANGED rest

\* the worker extracts the features of its shard
Features ==
    /\ unit.kind = "load" /\ unit.built /\ ~unit.featured
    /\ unit' = [unit EXCEPT
                  !.featured = TRUE,
                  !.feats = compute_features(variant, unit.records,
                                             FlowCount(unit.records), unit.acc)]
    /\ UNCHANGED rest

\* the worker looks for a hot IP in the table it has built
HotIp ==
    /\ unit.kind = "load" /\ unit.built /\ ~unit.hot_done
    /\ unit' = [unit EXCEPT
                  !.hot_done = TRUE,
                  !.hot = detect_hot_ip(unit.acc.stats, unit.acc.total_packets)]
    /\ UNCHANGED rest

UnitInit ==
    /\ Parked
    /\ unit \in VoteStart \cup StatsStart \cup CusumStart \cup ReplayStart
                \cup LoadStart
                \cup (IF variant = "enhanced" THEN HistoryStart ELSE {})

UnitNext ==
    \/ CastVote
    \/ \E f \in {"flag_entropy", "flag_cusum", "flag_ml"} : RaiseFlag(f)
    \/ \E ip \in {"1", "2", "new"}, pk \in {1, 3} : AddFlow(ip, pk)
    \/ \E x \in Rates : Sample(x)
    \/ SampleMean
    \/ \E elapsed \in 0..MaxTicks : RunWorker(elapsed)
    \/ LoadShard
    \/ BuildStats
    \/ Features
    \/ HotIp
    \/ \E x \in HistoryRates \cup {n * 1000 : n \in 1..CUSUM_WINDOW} : Feed(x)

UnitSpec == UnitInit /\ [][UnitNext]_vars

(***************************************************************************)
(* Properties.                                                             *)
(***************************************************************************)
\* every worker of the run has called MPI_Send
AllSent == ~Usage /\ \A w \in Workers : sends[w] = 1
\* the coordinator got its alert buffer and entered the receive loop
LoopEntered == recv_posted > 0
\* the coordinator has left the receive loop
PastLoop == cpc \in {"decide", "log"} \/ (cpc = "done" /\ LoopEntered)
\* the coordinator has decided
Decided == cpc = "log" \/ (cpc = "done" /\ LoopEntered)
NoRowsWritten ==
    alert_log = <<>> /\ perf_log = <<>> /\ blocking_log = <<>>
    /\ iptables_rules = <<>>
\* indices (1-based) of the received alerts that vote attack
Voters == {i \in 1..Len(alerts) : alerts[i].attack_flag = 1}

\* C1: every worker that ran worker_start has sent exactly one Alert by the
\* time it exits, whatever happened to its shard or its allocations.
C1_OneAlertPerWorker ==
    \A w \in AllWorkers : (w \in started /\ wpc[w] = "done") => sends[w] = 1

C2_Safety ==
    /\ recv_posted <= num_workers \/ Usage
    /\ Len(alerts) <= recv_posted
    /\ PastLoop => (Len(alerts) = num_workers /\ recv_posted = num_workers)
    /\ ~Decided => (global_attack = 0 /\ chosen_ip = "")
    /\ ~(cpc = "done" /\ LoopEntered) => alert_log = <<>> /\ perf_log = <<>>
    /\ (cpc = "done" /\ LoopEntered) => Len(alert_log) = num_workers

C3_MajorityVerdict ==
    Decided =>
        (global_attack = 1 <=>
            (Cardinality(Voters) >= (num_workers + 1) \div 2
             /\ chosen_index # -1))

\* C4: the Alert of a worker without data has its rank, attack_flag 0,
\* suspicious_ip "NONE" and zero in every numeric field.
C4_NoDataAlert ==
    \A w \in AllWorkers :
        wres[w].path = "no_data" =>
            wres[w].alert = [EmptyAlert(w) EXCEPT !.suspicious_ip = "NONE"]

\* C5: for a worker that loaded records, attack_flag is 1 exactly when at
\* least two detector flags are 1, and the Alert carries the detectors' flags.
C5_TwoOfThree ==
    \A w \in AllWorkers :
        wres[w].path = "detect" =>
            LET r == wres[w]
            IN  /\ r.alert.attack_flag \in {0, 1}
                /\ (r.alert.attack_flag = 1) <=>
                       (r.flag_entropy + r.flag_cusum + r.flag_ml >= 2)
                /\ r.alert.entropy_detected = r.flag_entropy
                /\ r.alert.cusum_detected = r.flag_cusum
                /\ r.alert.ml_detected = r.flag_ml
                /\ {r.flag_entropy, r.flag_cusum, r.flag_ml} \subseteq {0, 1}

C5_Witness ==
    \E w, x \in AllWorkers :
        /\ wres[w].path = "detect" /\ wres[w].alert.attack_flag = 1
        /\ wres[w].flag_entropy = 1 /\ wres[w].flag_ml = 1
        /\ wres[x].path = "detect" /\ wres[x].alert.attack_flag = 0
        /\ wres[x].flag_entropy + wres[x].flag_cusum + wres[x].flag_ml = 1

\* C6: in an Alert built from a non-empty shard, suspicious_ip is the hot IP
\* (or, without one, Features.top_ip) when attack_flag is 1, else "NONE".
C6_SuspiciousIp ==
    \A w \in AllWorkers :
        wres[w].path = "detect" =>
            LET r == wres[w]
            IN  IF r.alert.attack_flag = 1
                THEN r.alert.suspicious_ip =
                        (IF r.hot_ip # "" THEN r.hot_ip ELSE r.top_ip)
                ELSE r.alert.suspicious_ip = "NONE"

C6_Witness ==
    \E w \in AllWorkers :
        /\ wres[w].path = "detect" /\ wres[w].alert.attack_flag = 1
        /\ wres[w].hot_ip = "" /\ wres[w].top_ip # ""
        /\ wres[w].alert.suspicious_ip = wres[w].top_ip

\* C7: after the last receive chosen_index is the earliest received attack
\* alert of maximal avg_rate (none when nobody votes attack), and on a
\* global attack the blocked IP is that alert's suspicious_ip.
C7_ChosenIsMaxRate ==
    PastLoop =>
        /\ Voters = {} => chosen_index = -1
        /\ Voters # {} =>
              /\ chosen_index + 1 \in Voters
              /\ \A j \in Voters :
                    /\ alerts[j].avg_rate <= alerts[chosen_index + 1].avg_rate
                    /\ alerts[j].avg_rate = alerts[chosen_index + 1].avg_rate
                          => j >= chosen_index + 1
        /\ (Decided /\ global_attack = 1) =>
              /\ chosen_ip = alerts[chosen_index + 1].suspicious_ip
              /\ blocking_stats.blocked_ip = chosen_ip

C7_Witness ==
    /\ Decided /\ global_attack = 1 /\ num_workers = 3
    /\ alerts[1].attack_flag = 1 /\ alerts[2].attack_flag = 1
    /\ alerts[3].attack_flag = 0
    /\ alerts[1].avg_rate < alerts[2].avg_rate
    /\ chosen_index = 1
    /\ chosen_ip = alerts[2].suspicious_ip

\* the coordinator's loop run over the alerts in another arrival order
RECURSIVE Fuse(_, _, _, _)
Fuse(v, as, order, k) ==
    IF k = 0 THEN CoordLocals
    ELSE RecvStep(v, Fuse(v, as, order, k - 1), as[order[k]])

Orders(n) == {f \in [1..n -> 1..n] : \A i, j \in 1..n : f[i] = f[j] => i = j}

NoRateTie ==
    \A i, j \in Voters : alerts[i].avg_rate = alerts[j].avg_rate => i = j

\* C8: for the alerts of a run, every arrival order gives the same global
\* verdict, and the same blocked IP unless two attack alerts tie on avg_rate.
C8_OrderInvariant ==
    Decided =>
        \A order \in Orders(num_workers) :
            LET c == Fuse(variant, alerts, order, num_workers)
            IN  /\ GlobalAttack(variant, c, num_workers) = global_attack
                /\ NoRateTie => ChosenIp(variant, c, num_workers) = chosen_ip

C8_Witness ==
    /\ Decided /\ global_attack = 1 /\ num_workers = 3 /\ NoRateTie
    /\ Cardinality(Voters) = 2
    /\ \E i, j \in Voters : alerts[i].suspicious_ip # alerts[j].suspicious_ip

\* some worker has returned from worker_start without sending
Lost == \E w \in AllWorkers : w \in started /\ wpc[w] = "done" /\ sends[w] = 0

C10_LogRows ==
    (cpc = "done" /\ LoopEntered) =>
        /\ Len(blocking_log) = (IF global_attack = 1 THEN 1 ELSE 0)
        /\ Len(alert_log) = num_workers
        /\ Len(perf_log) = 1

\* C11: when the vote on a triple of detector flags gives attack_flag 1,
\* the vote on the triple with one more flag raised from 0 to 1 gives 1 too.
C11_VoteMonotone ==
    (unit.kind = "vote" /\ unit.raised /\ unit.before = 1)
        => unit.alert.attack_flag = 1

C11_Witness ==
    /\ unit.kind = "vote" /\ unit.raised /\ unit.before = 1
    /\ unit.flag_entropy + unit.flag_cusum + unit.flag_ml = 3
    /\ unit.alert.attack_flag = 1

\* sums of the counters over the table entries lo..hi
RECURSIVE PacketSum(_, _, _)
PacketSum(stats, lo, hi) ==
    IF lo > hi THEN 0
    ELSE IF lo = hi THEN stats[lo].packet_count
    ELSE PacketSum(stats, lo, (lo + hi) \div 2)
         + PacketSum(stats, (lo + hi) \div 2 + 1, hi)

RECURSIVE ByteSum(_, _, _)
ByteSum(stats, lo, hi) ==
    IF lo > hi THEN 0
    ELSE IF lo = hi THEN stats[lo].byte_count
    ELSE ByteSum(stats, lo, (lo + hi) \div 2)
         + ByteSum(stats, (lo + hi) \div 2 + 1, hi)

\* C12: after every iteration of build_ip_stats the packet counts of the
\* table sum to total_packets and its byte counts to total_bytes, also when
\* more than MAX_UNIQUE_IPS distinct sources were seen.
C12_Conservation ==
    unit.kind = "stats" =>
        /\ PacketSum(unit.acc.stats, 1, Len(unit.acc.stats))
              = unit.acc.total_packets
        /\ ByteSum(unit.acc.stats, 1, Len(unit.acc.stats))
              = unit.acc.total_bytes

\* C13: the first CUSUM call of a worker, on the freshly initialised state,
\* with avg_rate = 50000 returns 1.
C13_FirstSampleFires ==
    (unit.kind = "cusum" /\ unit.calls = 1 /\ unit.x = 50000000)
        => unit.flag = 1

\* C14: after any sequence of CUSUM calls from the initialised state,
\* cumsum_pos >= 0 and cumsum_neg >= 0.
C14_CusumNonNegative ==
    unit.kind = "cusum" =>
        /\ unit.state.cumsum_pos >= 0
        /\ unit.state.cumsum_neg >= 0

C14_Witness ==
    /\ unit.kind = "cusum" /\ variant = "enhanced"
    /\ unit.calls > CUSUM_WINDOW
    /\ unit.flag = 1
    /\ unit.state.cumsum_pos > 5000 /\ unit.state.cumsum_neg = 0

\* C15: from a fresh CusumState, as long as every sample was the current
\* mean (W times in particular) cumsum_pos = cumsum_neg = 0 and the detector
\* has not fired.
C15_CusumReset ==
    (unit.kind = "cusum" /\ unit.mean_run >= 1) =>
        /\ unit.state.cumsum_pos = 0
        /\ unit.state.cumsum_neg = 0
        /\ unit.fired = 0

C15_Witness ==
    /\ unit.kind = "cusum" /\ variant = "enhanced"
    /\ unit.mean_run = CUSUM_WINDOW
    /\ unit.state.sample_count = CUSUM_WINDOW
    /\ unit.state.cumsum_pos = 0 /\ unit.state.cumsum_neg = 0
    /\ unit.fired = 0

\* C16: two runs of a worker on the same shard, rank and dataset root send
\* Alerts that are equal in every field.
C16_Deterministic ==
    (unit.kind = "replay" /\ unit.runs = 2) => unit.first = unit.second

\* C17: a step that changes a result file is a step of rank 0 after its last
\* receive and changes no worker; no step of a worker changes a result file,
\* and no result file has a row before rank 0 has decided.
C17_OnlyRankZeroWrites ==
    /\ [](files # <<(<<>>), (<<>>), (<<>>), (<<>>)>>
            => (0 \in started /\ cpc \in {"log", "done"}))
    /\ [][files' # files =>
            /\ cpc \in {"decide", "log"} /\ cpc' # cpc
            /\ UNCHANGED <<wpc, wres, sends, net>>]_vars
    /\ [][(wres' # wres \/ sends' # sends) => files' = files]_vars

C17_Witness ==
    /\ cpc = "done" /\ num_workers = 3
    /\ \A w \in Workers : wpc[w] = "done" /\ sends[w] = 1
    /\ Len(alert_log) = 3 /\ Len(blocking_log) = 1
    /\ iptables_rules # <<>>

\* the run was started without a data root or with a single rank
NoRun == argc < 2 \/ size < 2

C18_NothingStarted ==
    NoRun =>
        /\ started = {} /\ net = {}
        /\ cpc \in {"init", "done"}
        /\ recv_posted = 0 /\ alerts = <<>>
        /\ \A w \in AllWorkers :
              /\ wpc[w] \in {"init", "done", "absent"}
              /\ sends[w] = 0
              /\ wres[w] = NoResult
        /\ NoRowsWritten

\* C18: when argc < 2 or N < 2 neither coordinator_start nor worker_start is
\* ever called (no Alert sent or received, no shard read, no row written),
\* and every rank leaves main with code 0.
C18_UsageExit ==
    /\ []C18_NothingStarted
    /\ NoRun ~> (/\ ExitCode(cpc) = 0
                 /\ \A w \in Workers : ExitCode(wpc[w]) = 0)

C18_Witness ==
    /\ argc < 2 /\ size = MaxRanks
    /\ cpc = "done" /\ \A w \in Workers : wpc[w] = "done"
    /\ started = {} /\ NoRowsWritten

Cells ==
    {"true_positives", "false_positives", "true_negatives", "false_negatives"}
\* the cell that an alert's (attack_flag, true_label) selects
CellOf(a) ==
    IF a.attack_flag = 1 /\ a.true_label = 1 THEN "true_positives"
    ELSE IF a.attack_flag = 1 /\ a.true_label = 0 THEN "false_positives"
    ELSE IF a.attack_flag = 0 /\ a.true_label = 1 THEN "false_negatives"
    ELSE IF a.attack_flag = 0 /\ a.true_label = 0 THEN "true_negatives"
    ELSE "none"
MatrixSum ==
    aggregated_metrics.true_positives + aggregated_metrics.false_positives
    + aggregated_metrics.true_negatives + aggregated_metrics.false_negatives
C19_Sums ==
    variant = "enhanced" =>
        /\ MatrixSum = Len(alerts)
        /\ aggregated_metrics.true_positives
             + aggregated_metrics.false_positives = attack_votes
        /\ \A c \in Cells :
              aggregated_metrics[c]
                = Cardinality({i \in 1..Len(alerts) : CellOf(alerts[i]) = c})
        /\ PastLoop => MatrixSum = size - 1
C19_OneCell ==
    (variant = "enhanced" /\ Len(alerts') = Len(alerts) + 1) =>
        \A c \in Cells :
            aggregated_metrics'[c]
              = aggregated_metrics[c]
                + (IF c = CellOf(alerts'[Len(alerts')]) THEN 1 ELSE 0)

\* C19: in the enhanced coordinator each received Alert increments exactly
\* the one confusion-matrix cell its (attack_flag, true_label) selects
\* (1,1 TP; 1,0 FP; 0,1 FN; 0,0 TN); after every receive TP+FP+TN+FN is the
\* number of alerts received and TP+FP is attack_votes; after the loop the
\* four cells sum to N-1.
C19_ConfusionMatrix == []C19_Sums /\ [][C19_OneCell]_vars

C19_Witness ==
    /\ variant = "enhanced" /\ PastLoop /\ size = MaxRanks
    /\ aggregated_metrics.true_positives >= 1
    /\ aggregated_metrics.false_negatives >= 1
    /\ MatrixSum = MaxRanks - 1

\* C20: every FlowRecord the shard reader accepts has packets >= 1 and
\* bytes >= 0, whatever the numeric values of the input line.
C20_RecordInvariant ==
    (unit.kind = "load" /\ unit.loaded) =>
        \A i \in 1..Len(unit.records) :
            unit.records[i].packets >= 1 /\ unit.records[i].bytes >= 0

\* C21: every IpStat entry that exists in the table has packet_count > 0.
C21_LiveEntriesPositive ==
    (unit.kind = "load" /\ unit.built) =>
        \A i \in 1..Len(unit.acc.stats) : unit.acc.stats[i].packet_count > 0

\* the number of data lines of a shard
RECURSIVE DataLines(_)
DataLines(file) ==
    IF file = <<>> THEN 0
    ELSE (IF Head(file).kind = "data" THEN Head(file).reps ELSE 0)
         + DataLines(Tail(file))

\* C22: a shard with the header src_ip,dst_ip,bytes,timestamp,protocol,
\* src_port,dst_port,packets followed by k <= MAX_FLOWS well-formed data
\* lines (blank and '#' lines skipped) yields k records.
C22_WellFormedShardLoads ==
    (unit.kind = "load" /\ unit.loaded /\ unit.file \in WellFormedShards) =>
        FlowCount(unit.records) = DataLines(unit.file)

\* the distinct source addresses of the accepted records
SourceIps(records) == {records[i].src_ip : i \in 1..Len(records)}

C23_NonNegative ==
    (unit.kind = "load" /\ unit.featured /\ unit.records # <<>>) =>
        unit.feats.entropy >= 0
C23_UpperBound ==
    (unit.kind = "load" /\ unit.featured /\ unit.records # <<>>) =>
        unit.feats.entropy * 1024 <= Log2Q10(Len(unit.acc.stats)) * 1000
C23_ZeroIffOneSource ==
    (unit.kind = "load" /\ unit.featured /\ unit.records # <<>>) =>
        (unit.feats.entropy = 0 <=> Cardinality(SourceIps(unit.records)) = 1)

\* C23: for any non-empty shard 0 <= entropy <= log2(unique_ips), and
\* entropy = 0 if and only if the shard has exactly one distinct source IP.
C23_EntropyBounds ==
    C23_NonNegative /\ C23_UpperBound /\ C23_ZeroIffOneSource

\* position of the entry with the highest packet_count, the first among ties
FirstTop(stats) ==
    CHOOSE k \in 1..Len(stats) :
        /\ \A j \in 1..Len(stats) : stats[j].packet_count <= stats[k].packet_count
        /\ \A j \in 1..(k - 1) : stats[j].packet_count < stats[k].packet_count
\* c / t > 0.4 as the division of two doubles decides it (t = 0 gives an
\* infinity of the sign of c, or NaN)
ShareAbove(c, t) ==
    IF t > 0 THEN 5 * c > 2 * t
    ELSE IF t < 0 THEN 5 * c < 2 * t
    ELSE c > 0

\* C24: a hot IP is reported if and only if the first entry with the highest
\* packet_count has packet_count / total_packets > 0.4; the IP returned is
\* then that entry's, and otherwise the empty string.
C24_HotIpRule ==
    (unit.kind = "load" /\ unit.hot_done) =>
        IF unit.acc.stats = <<>>
        THEN unit.hot = [flag |-> 0, ip |-> ""]
        ELSE LET top == unit.acc.stats[FirstTop(unit.acc.stats)]
             IN  IF ShareAbove(top.packet_count, unit.acc.total_packets)
                 THEN unit.hot = [flag |-> 1, ip |-> top.ip]
                 ELSE unit.hot = [flag |-> 0, ip |-> ""]

\* C25: after any sequence of update_cusum calls 0 <= sample_count <= W and
\* the history holds the most recent min(n, W) samples in arrival order (a
\* full window drops its oldest sample, shifts left and appends the new one).
C25_HistoryWindow ==
    unit.kind = "history" =>
        LET n == Len(unit.seen)
            m == Min(n, CUSUM_WINDOW)
        IN  /\ unit.state.sample_count >= 0
            /\ unit.state.sample_count <= CUSUM_WINDOW
            /\ unit.state.sample_count = m
            /\ unit.state.history = SubSeq(unit.seen, n - m + 1, n)

C25_Witness ==
    /\ unit.kind = "history"
    /\ Len(unit.seen) = CUSUM_WINDOW + 2
    /\ unit.state.history[1] # unit.seen[1]
    /\ unit.state.history[CUSUM_WINDOW] = unit.seen[CUSUM_WINDOW + 2]
    /\ unit.state.history[CUSUM_WINDOW] # unit.seen[CUSUM_WINDOW + 1]

\* C26: a run with a global attack appends exactly two lines to
\* results/metrics/iptables_rules.txt, the INPUT rule then the OUTPUT rule
\* for the blocked IP, and a run without a global attack appends none.
C26_TwoRulesPerAttack ==
    IF Decided /\ global_attack = 1
    THEN iptables_rules = << <<"iptables -A INPUT -s", chosen_ip, "-j DROP">>,
                             <<"iptables -A OUTPUT -d", chosen_ip, "-j DROP">> >>
    ELSE iptables_rules = <<>>

\* C27: whenever the coordinator declares a global attack, attack_votes >= 1
\* and chosen_index is in 0..N-2 and indexes a received Alert with
\* attack_flag = 1, also when the vote threshold is 0; a run in which no
\* worker votes attack never triggers blocking.
C27_AttackHasVoter ==
    /\ global_attack = 1 =>
          /\ attack_votes >= 1
          /\ chosen_index \in 0..(size - 2)
          /\ chosen_index < Len(alerts)
          /\ alerts[chosen_index + 1].attack_flag = 1
    /\ (PastLoop /\ attack_votes = 0) =>
          /\ global_attack = 0
          /\ blocking_stats = ZeroBlockingStats
          /\ blocking_log = <<>> /\ iptables_rules = <<>>

C27_Witness ==
    /\ variant = "enhanced" /\ size = 2
    /\ VoteThreshold(variant, num_workers) = 0
    /\ Decided /\ global_attack = 1
    /\ attack_votes = 1 /\ chosen_index = 0

\* the source addresses of the records a build reads from a shard file
ShardSources ==
    [v \in Variants, file \in Shards |->
        SourceIps(load_partition(v, file, Epoch, 0))]
\* the shard files on which the worker's run leaves the result res behind
ShardsOf(w, res) ==
    {file \in Shards : \E e \in 0..MaxTicks :
        Runs[variant, dataset_root, w, file, e] = res}

\* C28: on every global attack the blocked IP is neither "NONE" nor empty
\* and is a source IP of the winning worker's shard; an Alert with
\* attack_flag = 1 is never a no-data Alert and never carries "NONE".
C28_BlockedIpIsSource ==
    /\ \A a \in net \cup {alerts[i] : i \in 1..Len(alerts)} :
          a.attack_flag = 1 =>
              /\ a.suspicious_ip \notin {"NONE", ""}
              /\ wres[a.worker_rank].path = "detect"
              /\ wres[a.worker_rank].alert = a
    /\ global_attack = 1 =>
          LET a == alerts[chosen_index + 1]
          IN  /\ chosen_ip = a.suspicious_ip
              /\ chosen_ip \notin {"NONE", ""}
              /\ blocking_stats.blocked_ip = chosen_ip
              /\ \A files_read \in {ShardsOf(a.worker_rank, wres[a.worker_rank])} :
                    /\ files_read # {}
                    /\ \A file \in files_read :
                          chosen_ip \in ShardSources[variant, file]
    /\ \A i \in 1..Len(blocking_log) :
          /\ global_attack = 1
          /\ blocking_log[i].blocked_ip = chosen_ip

C28_Witness ==
    /\ cpc = "done" /\ global_attack = 1 /\ size = MaxRanks
    /\ Len(blocking_log) = 1
    /\ blocking_log[1].blocked_ip = "10.0.0.3"
    /\ alerts[chosen_index + 1].suspicious_ip = "10.0.0.3"

\* every Alert of the run: sent and in flight, received, or left behind by
\* a worker that built one
RunAlerts ==
    net \cup {alerts[i] : i \in 1..Len(alerts)}
        \cup {wres[w].alert : w \in {x \in AllWorkers : wres[x].path # "none"}}

\* C29: the CUSUM detector, called once on a freshly initialised state, never
\* fires: cusum_detected is 0 in every Alert of every run, and a worker sets
\* attack_flag = 1 if and only if the entropy and the ML detector both fire.
C29_CusumNeverVotes ==
    /\ \A a \in RunAlerts :
          /\ a.cusum_detected = 0
          /\ a.attack_flag = 1 <=> (a.entropy_detected = 1 /\ a.ml_detected = 1)
    /\ \A w \in AllWorkers :
          /\ wres[w].flag_cusum = 0
          /\ wres[w].alert.attack_flag = 1
                <=> (wres[w].flag_entropy = 1 /\ wres[w].flag_ml = 1)

C29_Witness ==
    /\ PastLoop /\ size = MaxRanks
    /\ \E i \in 1..Len(alerts) :
          /\ alerts[i].attack_flag = 1 /\ alerts[i].avg_rate > 5000000
          /\ alerts[i].entropy_detected = 1 /\ alerts[i].ml_detected = 1
    /\ \E i \in 1..Len(alerts) :
          /\ alerts[i].attack_flag = 0
          /\ alerts[i].entropy_detected + alerts[i].ml_detected = 1

\* some malloc of the run has failed
AllocFailed ==
    \/ cpc = "done" /\ 0 \in started /\ recv_posted = 0
    \/ \E w \in Workers : wres[w].path \in {"alloc_fail", "stats_alloc_fail"}
\* every rank has returned to main and passed MPI_Finalize, every send is
\* matched and every worker rank sits in exactly one slot of the buffer
Finished ==
    /\ cpc = "done" /\ \A w \in Workers : wpc[w] = "done" /\ sends[w] = 1
    /\ net = {} /\ Len(alerts) = size - 1
    /\ \A w \in Workers :
          Cardinality({i \in 1..Len(alerts) : alerts[i].worker_rank = w}) = 1
\* no worker rank sits in two slots of the buffer, and no alert is both in
\* flight and received
DistinctSlots ==
    /\ \A i, j \in 1..Len(alerts) :
          alerts[i].worker_rank = alerts[j].worker_rank => i = j
    /\ \A i \in 1..Len(alerts) :
          /\ alerts[i].worker_rank \in Workers
          /\ \A a \in net : a.worker_rank # alerts[i].worker_rank
\* a sent alert is in flight or in a slot of the buffer
SendsAccounted ==
    \A w \in Workers :
        sends[w] = 1 =>
            \/ \E a \in net : a.worker_rank = w
            \/ \E i \in 1..Len(alerts) : alerts[i].worker_rank = w

\* C30: if no allocation fails the run does not deadlock, under buffered and
\* under rendezvous sends and every interleaving: each worker's send is
\* matched by one of the N-1 wildcard receives, every rank reaches
\* MPI_Finalize, and the buffer holds each worker rank exactly once.
C30_DeadlockFree ==
    /\ []DistinctSlots
    /\ []SendsAccounted
    /\ (~NoRun) ~> (AllocFailed \/ Finished)

C30_Witness ==
    /\ mode = "rendezvous" /\ size = MaxRanks
    /\ Finished /\ ~AllocFailed
    /\ alerts[1].worker_rank = MaxRanks - 1

====
